---- MODULE Spec2Model ----
(***************************************************************************)
(* Model of the HID control panel front end (src/src/main.ts): the device  *)
(* catalog, the selection, the listener registry, the log pane and the     *)
(* asynchronous scan / send handlers with their await points.              *)
(*                                                                         *)
(* JavaScript runs one handler at a time: a handler (or the continuation   *)
(* of an await) runs to its next await atomically, so every action below   *)
(* is one such run-to-await segment.                                       *)
(***************************************************************************)
EXTENDS Integers, Sequences, FiniteSets, TLC

VARIABLES
    scannedDevices,      \* main.ts:18  the catalog, a sequence of descriptors
    selectedDevicePath,  \* main.ts:19  a path, or NULL
    activeListeners,     \* main.ts:21  set of paths
    log,                 \* children of the #log element, oldest first
    scanPending,         \* number of scanBtn.onclick runs awaiting scan_hid_devices
    disp,                \* sendBtn.onclick runs awaiting the backend, per slot
    unlistenHid,         \* main.ts:20  the handle listen() resolved with, or NoHandle
    subs,                \* handles of the active subscriptions to "hid-data"
    initPending,         \* number of initEventListener runs awaiting listen()
    scanOld,             \* history: how many of the pending scans were requested
                         \* before the scan that latestResult came from
    latestResult,        \* history: the enumeration returned to the most recently
                         \* requested scan among those that have resolved
    listenRequested,     \* history: paths start_listening was invoked for since
                         \* the last rejected backend call of a send to that path
    event                \* history: the handler or continuation that ran last and
                         \* the input it ran on (the text #hexInput held at a click
                         \* on sendBtn, the value an invoke resolved with)

vars == <<scannedDevices, selectedDevicePath, activeListeners, log,
          scanPending, disp, unlistenHid, subs, initPending, scanOld, latestResult,
          listenRequested, event>>

\* The state of the event bridge, and the rest of the session state.
bridge == <<unlistenHid, subs, initPending>>
scans == <<scanOld, latestResult>>
session == <<scannedDevices, selectedDevicePath, activeListeners, scanPending, disp,
             scanOld, latestResult, listenRequested>>

-----------------------------------------------------------------------------
(* Bounds *)

MaxLog == 2        \* entries the log pane may hold before the operator clears it
MaxDispatch == 2   \* sendBtn.onclick runs that may be awaiting at once
MaxScan == 1       \* scanBtn.onclick runs that may be awaiting at once
MaxOverlap == 2    \* the same, where the operator scans again before the answer
MaxInit == 2       \* initEventListener runs that may be awaiting at once
MaxSubs == 2       \* subscriptions that may be active at once

NULL == "<null>"

\* unlistenHid = null; handles are the positive numbers.
NoHandle == 0
FirstHandle == 1

Slots == 1..MaxDispatch

\* Characters are one-character strings; a text is a sequence of characters.
Whitespace == {" ", "\t"}

\* What the operator may type into #hexInput.  DefaultCommand is the value the
\* field is created with.
DefaultCommand ==
    <<"0","0"," ","C","0"," ","0","A"," ","0","0"," ","0","0">>
Texts ==
    { DefaultCommand,
      <<>>,
      <<" ", " ", " ">>,
      <<"Z","Z">> }

\* Descriptors the backend may report (path and interface_number; the other
\* fields are only rendered).
DevA == [path |-> "dev-1", interface_number |-> 0]
DevB == [path |-> "dev-2", interface_number |-> 1]
Paths == {DevA.path, DevB.path}

\* Enumerations scan_hid_devices may return: paths unique within one.
Enumerations == { <<>>, <<DevA>>, <<DevB>>, <<DevA, DevB>> }

\* Responses send_hid_command may return, and payloads of hid-data events.
Responses == { <<>>, <<10, 255>> }
Payloads == { <<171>> }

\* The rejection value of a failed invoke, as interpolated into a message.
ErrText == <<"e","r","r">>

-----------------------------------------------------------------------------
(* String functions of the JavaScript runtime, as the handlers use them *)

RECURSIVE TrimStart(_)
TrimStart(s) ==
    IF s # <<>> /\ Head(s) \in Whitespace THEN TrimStart(Tail(s)) ELSE s

RECURSIVE TrimEnd(_)
TrimEnd(s) ==
    IF s # <<>> /\ s[Len(s)] \in Whitespace
    THEN TrimEnd(SubSeq(s, 1, Len(s) - 1))
    ELSE s

\* A handler that reads the field without trimming it.
Trim_None(s) == s

\* String.prototype.trim
Trim(s) == TrimEnd(TrimStart(s))

\* String.prototype.split(/\s+/): cur is the token being read.
RECURSIVE SplitFrom(_, _)
SplitFrom(s, cur) ==
    IF s = <<>> THEN <<cur>>
    ELSE IF Head(s) \in Whitespace
         THEN <<cur>> \o SplitFrom(TrimStart(s), <<>>)
         ELSE SplitFrom(Tail(s), Append(cur, Head(s)))

Split(s) == SplitFrom(s, <<>>)

HexChars == <<"0","1","2","3","4","5","6","7","8","9","A","B","C","D","E","F">>
LowerHexChars == <<"0","1","2","3","4","5","6","7","8","9","a","b","c","d","e","f">>

IsHexDigit(c) == \E i \in 1..16 : HexChars[i] = c \/ LowerHexChars[i] = c
HexDigitVal(c) == (CHOOSE i \in 1..16 : HexChars[i] = c \/ LowerHexChars[i] = c) - 1

\* A JavaScript number as parseInt yields it: NaN or an integer.
NaN == [nan |-> TRUE, val |-> 0]
Num(n) == [nan |-> FALSE, val |-> n]

\* The value of the longest prefix of s made of hexadecimal digits, having read acc.
RECURSIVE HexPrefixVal(_, _)
HexPrefixVal(s, acc) ==
    IF s # <<>> /\ IsHexDigit(Head(s))
    THEN HexPrefixVal(Tail(s), acc * 16 + HexDigitVal(Head(s)))
    ELSE acc

\* parseInt(h, 16): leading white space, a sign, an optional 0x, then the longest
\* prefix of digits; NaN when there is no digit.
ParseInt16(h) ==
    LET t1 == TrimStart(h)
        neg == t1 # <<>> /\ Head(t1) = "-"
        t2 == IF t1 # <<>> /\ Head(t1) \in {"-", "+"} THEN Tail(t1) ELSE t1
        t3 == IF Len(t2) >= 2 /\ t2[1] = "0" /\ t2[2] \in {"x", "X"}
              THEN SubSeq(t2, 3, Len(t2)) ELSE t2
    IN  IF t3 = <<>> \/ ~IsHexDigit(Head(t3)) THEN NaN
        ELSE Num((IF neg THEN -1 ELSE 1) * HexPrefixVal(t3, 0))

\* hexCmd.split(/\s+/).map(h => parseInt(h, 16))
ParseCommand(hexCmd) ==
    LET toks == Split(hexCmd) IN [i \in 1..Len(toks) |-> ParseInt16(toks[i])]

\* Number.prototype.toString(16).toUpperCase() of a non-negative integer
RECURSIVE ToHexUpper(_)
ToHexUpper(n) ==
    IF n < 16 THEN <<HexChars[n + 1]>>
    ELSE Append(ToHexUpper(n \div 16), HexChars[(n % 16) + 1])

\* String.prototype.padStart(2, '0')
PadStart2(s) ==
    IF Len(s) >= 2 THEN s ELSE IF Len(s) = 1 THEN <<"0">> \o s ELSE <<"0", "0">>

RECURSIVE Join(_)
Join(ss) ==
    IF ss = <<>> THEN <<>>
    ELSE IF Len(ss) = 1 THEN ss[1]
    ELSE ss[1] \o <<" ">> \o Join(Tail(ss))

\* A formatting that leaves out padStart.
FormatHex_NoPad(bytes) ==
    Join([i \in 1..Len(bytes) |-> ToHexUpper(bytes[i])])

\* bytes.map(b => b.toString(16).toUpperCase().padStart(2, '0')).join(' ')
FormatHex(bytes) ==
    Join([i \in 1..Len(bytes) |-> PadStart2(ToHexUpper(bytes[i]))])

\* Number.prototype.toString() of a non-negative integer, as a template interpolates it
RECURSIVE ToDec(_)
ToDec(n) ==
    IF n < 10 THEN <<HexChars[n + 1]>>
    ELSE Append(ToDec(n \div 10), HexChars[(n % 10) + 1])

-----------------------------------------------------------------------------
(* The log pane *)

Entry(type, prefix, body) == [type |-> type, prefix |-> prefix, body |-> body]

\* addLog(message, type): appends one entry to #log.
addLog(l, type, prefix, body) == Append(l, Entry(type, prefix, body))

\* The log pane is bounded in the model: a step that appends k entries needs room.
Room(k) == Len(log) + k <= MaxLog

-----------------------------------------------------------------------------
(* A pending run of sendBtn.onclick: where it awaits, the arguments of the    *)
(* invoke it awaits, and its local cmdArray.                                  *)

Idle == [pc |-> "idle", path |-> NULL, data |-> <<>>, cmdArray |-> <<>>]

AwaitStartListening(path, cmdArray) ==
    [pc |-> "start_listening", path |-> path, data |-> <<>>, cmdArray |-> cmdArray]

AwaitSendHidCommand(path, cmdArray) ==
    [pc |-> "send_hid_command", path |-> path, data |-> cmdArray, cmdArray |-> cmdArray]

FreeSlots == {d \in Slots : disp[d].pc = "idle"}
FirstFree == CHOOSE d \in FreeSlots : \A e \in FreeSlots : d <= e

\* dataset.path || null
OrNull(path) == IF path = "" THEN NULL ELSE path

\* scannedDevices.find(d => d.path === path), as the set of matches' first
HasDevice(path) == \E i \in 1..Len(scannedDevices) : scannedDevices[i].path = path
FindDevice(path) ==
    scannedDevices[CHOOSE i \in 1..Len(scannedDevices) :
                       /\ scannedDevices[i].path = path
                       /\ \A j \in 1..(i - 1) : scannedDevices[j].path # path]

\* The history record of a handler that ran on no input.
Ran(name) ==
    [name |-> name, text |-> <<>>, result |-> <<>>, response |-> <<>>, payload |-> <<>>]

-----------------------------------------------------------------------------
Init ==
    /\ scannedDevices = <<>>
    /\ selectedDevicePath = NULL
    /\ activeListeners = {}
    /\ log = <<>>
    /\ scanPending = 0
    /\ disp = [d \in Slots |-> Idle]
    /\ unlistenHid = FirstHandle
    /\ subs = {FirstHandle}
    /\ initPending = 0
    /\ scanOld = 0
    /\ latestResult = <<>>
    /\ listenRequested = {}
    /\ event = Ran("startApp")

-----------------------------------------------------------------------------
(* scanBtn.onclick, main.ts:146-155 *)

\* up to the await of invoke("scan_hid_devices")
ScanRequest ==
    /\ Room(1)
    /\ log' = addLog(log, "info", "Scanning HID bus...", <<>>)
    /\ scanPending' = scanPending + 1
    /\ event' = Ran("scanBtn.onclick")
    /\ UNCHANGED bridge
    /\ UNCHANGED scans
    /\ UNCHANGED <<scannedDevices, selectedDevicePath, activeListeners, disp, listenRequested>>

\* a click while fewer than MaxScan scans are awaiting their answer
ScanClick == scanPending < MaxScan /\ ScanRequest

\* a click while fewer than MaxOverlap scans are awaiting their answer
ScanClickOverlapping == scanPending < MaxOverlap /\ ScanRequest

\* An assignment that keeps the old descriptors and adds the new ones.
ScanAssign_Merge(old, result) ==
    old \o SelectSeq(result, LAMBDA r : \A i \in 1..Len(old) : old[i] # r)

\* the assignment of line 149 once the invoke has resolved with result
ScanAssign(old, result) == result

\* the invoke resolves: lines 149-151
ScanResolves(result) ==
    /\ scanPending > 0
    /\ \E k \in 1..scanPending :
          IF k <= scanOld
          THEN scanOld' = scanOld - 1 /\ latestResult' = latestResult
          ELSE scanOld' = k - 1 /\ latestResult' = result
    /\ Room(1)
    /\ scannedDevices' = ScanAssign(scannedDevices, result)
    /\ log' = addLog(log, "info", "Found n devices.", ToDec(Len(scannedDevices')))
    /\ scanPending' = scanPending - 1
    /\ event' = [Ran("scan_hid_devices:resolve") EXCEPT !.result = result]
    /\ UNCHANGED bridge
    /\ UNCHANGED <<selectedDevicePath, activeListeners, disp,
                   listenRequested>>

\* A catch block that also empties the catalog.
ScanRejects_Reset ==
    /\ scanPending > 0
    /\ \E k \in 1..scanPending :
          scanOld' = IF k <= scanOld THEN scanOld - 1 ELSE scanOld
    /\ latestResult' = latestResult
    /\ Room(1)
    /\ log' = addLog(log, "error", "Scan Error: ", ErrText)
    /\ scannedDevices' = <<>>
    /\ scanPending' = scanPending - 1
    /\ event' = Ran("scan_hid_devices:reject")
    /\ UNCHANGED bridge
    /\ UNCHANGED <<selectedDevicePath, activeListeners, disp, listenRequested>>

\* the invoke rejects: the catch of line 152
ScanRejects ==
    /\ scanPending > 0
    /\ \E k \in 1..scanPending :
          scanOld' = IF k <= scanOld THEN scanOld - 1 ELSE scanOld
    /\ latestResult' = latestResult
    /\ Room(1)
    /\ log' = addLog(log, "error", "Scan Error: ", ErrText)
    /\ scanPending' = scanPending - 1
    /\ event' = Ran("scan_hid_devices:reject")
    /\ UNCHANGED bridge
    /\ UNCHANGED <<scannedDevices, selectedDevicePath, activeListeners, disp, listenRequested>>

-----------------------------------------------------------------------------
(* click on a rendered .device-item, main.ts:131-142.  renderDeviceList runs  *)
(* right after every assignment to scannedDevices, so the rendered items are  *)
(* the entries of scannedDevices.                                             *)

SelectDevice(i) ==
    /\ i \in 1..Len(scannedDevices)
    /\ selectedDevicePath' = OrNull(scannedDevices[i].path)
    /\ IF HasDevice(selectedDevicePath')
       THEN /\ Room(1)
            /\ log' = addLog(log, "info", "Device selected. Interface: ",
                             ToDec(FindDevice(selectedDevicePath').interface_number))
       ELSE log' = log
    /\ event' = Ran("device-item.click")
    /\ UNCHANGED bridge
    /\ UNCHANGED scans
    /\ UNCHANGED <<scannedDevices, activeListeners, scanPending, disp,
                   listenRequested>>

-----------------------------------------------------------------------------
(* sendBtn.onclick, main.ts:158-195 *)

\* A handler without the check of line 159.
NoSelection_Never(path) == FALSE

\* line 159: !selectedDevicePath
NoSelection(path) == path = NULL \/ path = ""

\* line 165: if (!hexCmd) return
NoCommand(hexCmd) == hexCmd = <<>>

\* line 172: !activeListeners.has(selectedDevicePath)
NeedsListener(path) == path \notin activeListeners

\* The operator leaves text in #hexInput and clicks: lines 159-174 or 159-182,
\* up to the first await.
SendClick(text) ==
    /\ event' = [Ran("sendBtn.onclick") EXCEPT !.text = text]
    /\ UNCHANGED bridge
    /\ UNCHANGED scans
    /\ IF NoSelection(selectedDevicePath)
       THEN /\ Room(1)
            /\ log' = addLog(log, "error", "Error: No device selected.", <<>>)
            /\ UNCHANGED <<disp, listenRequested>>
       ELSE LET hexCmd == Trim(text)
                cmdArray == ParseCommand(hexCmd)
                out == addLog(log, "outgoing", "[OUT] ", hexCmd)
            IN  IF NoCommand(hexCmd)
                THEN UNCHANGED <<log, disp, listenRequested>>
                ELSE /\ FreeSlots # {}
                     /\ IF NeedsListener(selectedDevicePath)
                        THEN /\ Room(2)
                             /\ log' = addLog(out, "info",
                                    "[SYS] Starting background worker for current OS...", <<>>)
                             /\ disp' = [disp EXCEPT ![FirstFree] =
                                    AwaitStartListening(selectedDevicePath, cmdArray)]
                             /\ listenRequested' = listenRequested \cup {selectedDevicePath}
                        ELSE /\ Room(1)
                             /\ log' = out
                             /\ disp' = [disp EXCEPT ![FirstFree] =
                                    AwaitSendHidCommand(selectedDevicePath, cmdArray)]
                             /\ UNCHANGED listenRequested
    /\ UNCHANGED <<scannedDevices, selectedDevicePath, activeListeners, scanPending>>

\* line 175: activeListeners.add(selectedDevicePath)
MarkStarted(listeners, path) == listeners \cup {path}

\* line 193: activeListeners.delete(selectedDevicePath)
MarkFailed(listeners, path) == listeners \ {path}

\* invoke("start_listening") resolves: lines 175-182, up to the next await
StartListeningResolves(d) ==
    /\ disp[d].pc = "start_listening"
    /\ activeListeners' = MarkStarted(activeListeners, selectedDevicePath)
    /\ disp' = [disp EXCEPT ![d] =
                   AwaitSendHidCommand(selectedDevicePath, disp[d].cmdArray)]
    /\ event' = Ran("start_listening:resolve")
    /\ UNCHANGED bridge
    /\ UNCHANGED scans
    /\ UNCHANGED <<scannedDevices, selectedDevicePath, log, scanPending,
                   listenRequested>>

\* A catch block that also drops the selection.
CatchBlock_Deselect(d) ==
    /\ Room(1)
    /\ log' = addLog(log, "error", "Communication Failure: ", ErrText)
    /\ activeListeners' = MarkFailed(activeListeners, selectedDevicePath)
    /\ disp' = [disp EXCEPT ![d] = Idle]
    /\ listenRequested' = listenRequested \ {disp[d].path}
    /\ selectedDevicePath' = NULL
    /\ UNCHANGED <<scannedDevices, scanPending>>

\* lines 190-194: the catch block, entered from either invoke
CatchBlock(d) ==
    /\ Room(1)
    /\ log' = addLog(log, "error", "Communication Failure: ", ErrText)
    /\ activeListeners' = MarkFailed(activeListeners, selectedDevicePath)
    /\ disp' = [disp EXCEPT ![d] = Idle]
    /\ listenRequested' = listenRequested \ {disp[d].path}
    /\ UNCHANGED <<scannedDevices, selectedDevicePath, scanPending>>

\* invoke("start_listening") rejects
StartListeningRejects(d) ==
    /\ disp[d].pc = "start_listening"
    /\ CatchBlock(d)
    /\ event' = Ran("start_listening:reject")
    /\ UNCHANGED bridge
    /\ UNCHANGED scans

\* invoke("send_hid_command") resolves with response: lines 185-188
SendHidCommandResolves(d, response) ==
    /\ disp[d].pc = "send_hid_command"
    /\ IF Len(response) > 0
       THEN /\ Room(1)
            /\ log' = addLog(log, "info", "[RESULT] ", FormatHex(response))
       ELSE log' = log
    /\ disp' = [disp EXCEPT ![d] = Idle]
    /\ event' = [Ran("send_hid_command:resolve") EXCEPT !.response = response]
    /\ UNCHANGED bridge
    /\ UNCHANGED scans
    /\ UNCHANGED <<scannedDevices, selectedDevicePath, activeListeners,
                   scanPending, listenRequested>>

\* invoke("send_hid_command") rejects
SendHidCommandRejects(d) ==
    /\ disp[d].pc = "send_hid_command"
    /\ CatchBlock(d)
    /\ event' = Ran("send_hid_command:reject")
    /\ UNCHANGED bridge
    /\ UNCHANGED scans

-----------------------------------------------------------------------------
(* clearLog.onclick, main.ts:107 *)

\* A clear that also forgets the listeners.
ClearLog_Reset ==
    /\ log' = <<>>
    /\ activeListeners' = {}
    /\ event' = Ran("clearLog.onclick")
    /\ UNCHANGED bridge
    /\ UNCHANGED scans
    /\ UNCHANGED <<scannedDevices, selectedDevicePath, scanPending, disp,
                   listenRequested>>

ClearLog ==
    /\ log' = <<>>
    /\ event' = Ran("clearLog.onclick")
    /\ UNCHANGED bridge
    /\ UNCHANGED scans
    /\ UNCHANGED <<scannedDevices, selectedDevicePath, activeListeners,
                   scanPending, disp, listenRequested>>

(* the "hid-data" callback, main.ts:51-54 *)

\* The entries one frame leaves in the log: every active subscription runs the
\* callback once.
RECURSIVE Delivered(_, _, _)
Delivered(l, n, payload) ==
    IF n = 0 THEN l
    ELSE Delivered(addLog(l, "incoming", "[ASYNC IN] ", FormatHex(payload)), n - 1, payload)

\* A callback that holds frames back while a send awaits the backend.
HidData_Buffered(payload) ==
    /\ Room(Cardinality(subs))
    /\ log' = IF \E d \in Slots : disp[d].pc # "idle"
              THEN log
              ELSE Delivered(log, Cardinality(subs), payload)
    /\ event' = [Ran("hid-data") EXCEPT !.payload = payload]
    /\ UNCHANGED bridge
    /\ UNCHANGED session

HidData(payload) ==
    /\ Room(Cardinality(subs))
    /\ log' = Delivered(log, Cardinality(subs), payload)
    /\ event' = [Ran("hid-data") EXCEPT !.payload = payload]
    /\ UNCHANGED bridge
    /\ UNCHANGED session

-----------------------------------------------------------------------------
(* initEventListener, main.ts:49-55.  startApp has run it once before Init;     *)
(* the actions below are further runs of it.                                    *)

\* A handle no subscription and no variable holds.
FreshHandle ==
    CHOOSE h \in 1..(MaxSubs + 2) :
        /\ h \notin subs \cup {unlistenHid}
        /\ \A g \in 1..(h - 1) : g \in subs \cup {unlistenHid}

\* line 50 and the call of listen(): up to the await
InitCall ==
    /\ initPending < MaxInit
    /\ subs' = IF unlistenHid # NoHandle THEN subs \ {unlistenHid} ELSE subs
    /\ initPending' = initPending + 1
    /\ event' = Ran("initEventListener")
    /\ UNCHANGED <<unlistenHid, log>>
    /\ UNCHANGED session

\* listen() resolves: the subscription is active and line 51 stores its handle
ListenResolves ==
    /\ initPending > 0
    /\ Cardinality(subs) < MaxSubs
    /\ subs' = subs \cup {FreshHandle}
    /\ unlistenHid' = FreshHandle
    /\ initPending' = initPending - 1
    /\ event' = Ran("listen:resolve")
    /\ UNCHANGED log
    /\ UNCHANGED session

-----------------------------------------------------------------------------
Next ==
    \/ ScanClick
    \/ \E result \in Enumerations : ScanResolves(result)
    \/ ScanRejects
    \/ \E i \in 1..Len(scannedDevices) : SelectDevice(i)
    \/ \E text \in Texts : SendClick(text)
    \/ \E d \in Slots : StartListeningResolves(d)
    \/ \E d \in Slots : StartListeningRejects(d)
    \/ \E d \in Slots, response \in Responses : SendHidCommandResolves(d, response)
    \/ \E d \in Slots : SendHidCommandRejects(d)
    \/ ClearLog
    \/ \E payload \in Payloads : HidData(payload)

Spec == Init /\ [][Next]_vars

\* The backend answers every invoke: a pending call is resolved or rejected.
BackendResponds(d) ==
    \/ StartListeningResolves(d)
    \/ StartListeningRejects(d)
    \/ \E response \in Responses : SendHidCommandResolves(d, response)
    \/ SendHidCommandRejects(d)

\* The session of an operator who scans, selects, sends the default command and
\* clears the log, with a backend that answers every call.
NextAnswered ==
    \/ ScanClick
    \/ \E result \in Enumerations : ScanResolves(result)
    \/ ScanRejects
    \/ \E i \in 1..Len(scannedDevices) : SelectDevice(i)
    \/ SendClick(DefaultCommand)
    \/ \E d \in Slots : BackendResponds(d)
    \/ ClearLog

FairSpec ==
    Init /\ [][NextAnswered]_vars /\ \A d \in Slots : WF_vars(BackendResponds(d))

\* The event bridge when initEventListener is run again, as its line 50 provides
\* for: re-initialisations, frames and log clears.
NextReinit ==
    \/ InitCall
    \/ ListenResolves
    \/ \E payload \in Payloads : HidData(payload)
    \/ ClearLog

SpecReinit == Init /\ [][NextReinit]_vars

\* The catalog when the operator scans again before the previous scan has
\* answered: scans, their answers in any order, selections and log clears.
NextScans ==
    \/ ScanClickOverlapping
    \/ \E result \in Enumerations : ScanResolves(result)
    \/ ScanRejects
    \/ \E i \in 1..Len(scannedDevices) : SelectDevice(i)
    \/ ClearLog

SpecScans == Init /\ [][NextScans]_vars

-----------------------------------------------------------------------------
(* Vocabulary of the properties *)

\* The entries a step appends; the log pane only grows, except when cleared.
Grows == Len(log') >= Len(log) /\ SubSeq(log', 1, Len(log)) = log
Appended == SubSeq(log', Len(log) + 1, Len(log'))

\* The step appends exactly one entry, of the given type.
AppendsOne(type) == Grows /\ Len(Appended) = 1 /\ Appended[1].type = type

\* The runs of sendBtn.onclick that await the backend.
InFlight == {d \in Slots : disp[d].pc # "idle"}

\* A number that is a byte.
IsByte(x) == ~x.nan /\ x.val \in 0..255

\* A text that is empty or white space only.
IsBlank(text) == \A i \in 1..Len(text) : text[i] \in Whitespace

\* No invoke is made by the step: no run starts to await and none moves on.
NoBackendCall == disp' = disp /\ scanPending' = scanPending

-----------------------------------------------------------------------------
(* C1..C10 *)

\* C1: when the send_hid_command call of a send to path P rejects, P is not in
\* the listener registry afterwards, whatever the operator did while the call
\* was pending (so that the next send to P starts the listener again).
C1_FailedSendUnmarksPath ==
    [][\A d \in Slots :
          (/\ disp[d].pc = "send_hid_command"
           /\ event'.name = "send_hid_command:reject"
           /\ disp'[d] # disp[d])
          => disp[d].path \notin activeListeners']_vars

\* C2: when the start_listening call of a send rejects, that send does not go on
\* to send_hid_command, an error entry is appended to the log, and the path the
\* call was made for is not in the listener registry afterwards.
C2_ListenerStartFailureAborts ==
    [][\A d \in Slots :
          (/\ disp[d].pc = "start_listening"
           /\ event'.name = "start_listening:reject"
           /\ disp'[d] # disp[d])
          => /\ disp'[d].pc = "idle"
             /\ AppendsOne("error")
             /\ disp[d].path \notin activeListeners']_vars

\* C3: the selected path, if set, is the path of a descriptor of the current
\* catalog.
C3_SelectionInCatalog ==
    selectedDevicePath # NULL => HasDevice(selectedDevicePath)

\* C4: at most one send is awaiting the backend at any time.
C4_OneDispatchInFlight == Cardinality(InFlight) <= 1

\* C5: start_listening is not invoked for a path it was already invoked for,
\* unless a backend call of a send to that path has failed since.
C5_ListenerRequestedOnce ==
    [][\A d \in Slots :
          (disp[d].pc # "start_listening" /\ disp'[d].pc = "start_listening")
          => disp'[d].path \notin listenRequested]_vars

\* C6: a click on send while no device is selected appends exactly one error
\* entry, makes no backend call, and leaves the catalog, the selection and the
\* listener registry unchanged.
C6_SendWithoutSelection ==
    [][(event'.name = "sendBtn.onclick" /\ selectedDevicePath = NULL)
          => /\ AppendsOne("error")
             /\ NoBackendCall
             /\ UNCHANGED <<scannedDevices, selectedDevicePath, activeListeners>>]_vars

C6_Witness ==
    /\ event.name = "sendBtn.onclick"
    /\ selectedDevicePath = NULL
    /\ scannedDevices # <<>>
    /\ ~IsBlank(event.text)
    /\ Len(log) > 0
    /\ log[Len(log)].type = "error"

\* C7: every element of the data of every pending send_hid_command call is an
\* integer in 0..255 (a command text with a token that is no byte is rejected).
C7_DataAreBytes ==
    \A d \in Slots :
        disp[d].pc = "send_hid_command" =>
            \A i \in 1..Len(disp[d].data) : IsByte(disp[d].data[i])

\* C8: a click on send with an empty or white-space-only command text makes no
\* backend call, appends no outgoing entry and leaves the listener registry
\* unchanged.
C8_BlankCommandNotSent ==
    [][(event'.name = "sendBtn.onclick" /\ IsBlank(event'.text))
          => /\ NoBackendCall
             /\ Grows
             /\ \A i \in 1..Len(Appended) : Appended[i].type # "outgoing"
             /\ activeListeners' = activeListeners]_vars

C8_Witness ==
    /\ event.name = "sendBtn.onclick"
    /\ IsBlank(event.text)
    /\ event.text # <<>>
    /\ selectedDevicePath # NULL
    /\ HasDevice(selectedDevicePath)

\* C9: after a scan succeeds the catalog is exactly the sequence of descriptors
\* that scan returned, whatever the catalog held from earlier scans.
C9_CatalogIsLastEnumeration ==
    [][event'.name = "scan_hid_devices:resolve"
          => scannedDevices' = event'.result]_vars

\* A second scan has returned an enumeration without the device selected from
\* the first.
C9_Witness ==
    /\ event.name = "scan_hid_devices:resolve"
    /\ selectedDevicePath = DevA.path
    /\ scannedDevices = <<DevB>>

\* C10: when scan_hid_devices rejects, the catalog, the selection and the
\* listener registry are unchanged, one error entry is appended, and the scan is
\* no longer pending.
C10_ScanFailureKeepsCatalog ==
    [][event'.name = "scan_hid_devices:reject"
          => /\ UNCHANGED <<scannedDevices, selectedDevicePath, activeListeners>>
             /\ AppendsOne("error")
             /\ scanPending' = scanPending - 1]_vars

\* A scan failed with a non-empty catalog, a selection and a listener in place,
\* and the next scan has been requested.
C10_Witness ==
    /\ scannedDevices # <<>>
    /\ selectedDevicePath # NULL
    /\ activeListeners # {}
    /\ Len(log) = 2
    /\ log[1].prefix = "Scan Error: "
    /\ log[2].prefix = "Scanning HID bus..."
    /\ scanPending = 1

-----------------------------------------------------------------------------
(* C11..C20 *)

C12_PushLoggedOnArrival ==
    [][/\ (event'.name = "hid-data" /\ InFlight # {})
            => /\ disp' = disp
               /\ AppendsOne("incoming")
               /\ event'.payload = <<171>> => Appended[1].body = <<"A", "B">>
       /\ event'.name # "clearLog.onclick" => Grows]_vars

\* A frame arrived between the outgoing entry of a send and its completion.
C12_Witness ==
    /\ event.name = "hid-data"
    /\ InFlight # {}
    /\ Len(log) = 2
    /\ log[1].type = "outgoing"
    /\ log[2].type = "incoming"

\* The bytes of DefaultCommand, in token order.
DefaultBytes == <<Num(0), Num(192), Num(10), Num(0), Num(0)>>

\* C13: a send of a valid command with a device selected appends an outgoing
\* entry holding the command text and no error entry; send_hid_command is
\* invoked with the selected path and the bytes of the command in token order;
\* and when it resolves with a non-empty response, one info entry "[RESULT]"
\* holding the response as upper-case two-digit hex pairs joined by spaces is
\* appended.
C13_SuccessfulSend ==
    [][/\ (/\ event'.name = "sendBtn.onclick"
           /\ event'.text = DefaultCommand
           /\ selectedDevicePath # NULL)
            => /\ \E d \in Slots :
                    /\ disp[d].pc = "idle"
                    /\ disp'[d].pc # "idle"
                    /\ disp'[d].path = selectedDevicePath
                    /\ disp'[d].cmdArray = DefaultBytes
               /\ Grows
               /\ Len(Appended) >= 1
               /\ Appended[1].type = "outgoing"
               /\ Appended[1].body = DefaultCommand
               /\ \A i \in 1..Len(Appended) : Appended[i].type # "error"
       /\ \A d \in Slots :
            (disp[d].pc # "send_hid_command" /\ disp'[d].pc = "send_hid_command")
            => /\ disp'[d].path = selectedDevicePath'
               /\ disp'[d].data = disp'[d].cmdArray
               /\ disp[d].pc = "start_listening" =>
                      (disp'[d].cmdArray = disp[d].cmdArray /\ log' = log)
       /\ (event'.name = "send_hid_command:resolve" /\ event'.response # <<>>)
            => /\ AppendsOne("info")
               /\ Appended[1].prefix = "[RESULT] "
               /\ event'.response = <<10, 255>> =>
                      Appended[1].body = <<"0", "A", " ", "F", "F">>
               /\ Cardinality(InFlight) - 1 = Cardinality({d \in Slots : disp'[d].pc # "idle"})
      ]_vars

\* The default command was sent to a listened device and answered 0A FF.
C13_Witness ==
    /\ event.name = "send_hid_command:resolve"
    /\ event.response = <<10, 255>>
    /\ Len(log) = 2
    /\ log[1] = Entry("outgoing", "[OUT] ", DefaultCommand)
    /\ log[2] = Entry("info", "[RESULT] ", <<"0", "A", " ", "F", "F">>)

\* C14: a click on clear empties the log and changes nothing else: catalog,
\* selection, listener registry, pending scans and sends and the subscription
\* are as before (a pending send completes and logs afterwards: the witness).
C14_ClearOnlyEmptiesLog ==
    [][event'.name = "clearLog.onclick"
          => /\ log' = <<>>
             /\ UNCHANGED <<scannedDevices, selectedDevicePath, activeListeners,
                            scanPending, disp, unlistenHid, subs>>]_vars

\* The log was cleared while a send was pending, and the send completed after.
C14_Witness ==
    /\ event.name = "send_hid_command:resolve"
    /\ log = <<Entry("info", "[RESULT] ", <<"0", "A", " ", "F", "F">>)>>
    /\ activeListeners # {}
    /\ scannedDevices # <<>>

\* C15: when the backend answers every call, every pending send completes,
\* with the selection still set; and a failed scan, listener start or command
\* send ends its run and leaves the selection and the catalog as they were.
C15_DispatchCompletes ==
    /\ \A d \in Slots :
          (disp[d].pc # "idle") ~> (disp[d].pc = "idle" /\ selectedDevicePath # NULL)
    /\ [][event'.name \in {"start_listening:reject", "send_hid_command:reject"}
            => /\ Cardinality({d \in Slots : disp'[d].pc # "idle"}) = Cardinality(InFlight) - 1
               /\ selectedDevicePath' # NULL
               /\ UNCHANGED <<scannedDevices, selectedDevicePath, scanPending>>]_vars

\* A send failed at send_hid_command and its run ended; the device is still
\* selected and no send is pending.
C15_Witness ==
    /\ event.name = "send_hid_command:reject"
    /\ InFlight = {}
    /\ selectedDevicePath # NULL
    /\ HasDevice(selectedDevicePath)

\* A text with a token that is not hexadecimal.
InvalidText(text) ==
    \E i \in 1..Len(text) : text[i] \notin Whitespace /\ ~IsHexDigit(text[i])

\* C16: a click on send that is rejected before dispatch (no device selected, a
\* blank command text, or an invalid one) appends an error entry, starts no
\* backend call and leaves the selection as it is.
C16_RejectedSendLogsError ==
    [][(/\ event'.name = "sendBtn.onclick"
        /\ \/ selectedDevicePath = NULL
           \/ IsBlank(event'.text)
           \/ InvalidText(event'.text))
          => /\ AppendsOne("error")
             /\ disp' = disp
             /\ selectedDevicePath' = selectedDevicePath]_vars

\* C17: the path a send passes to send_hid_command is the path it passed to
\* start_listening, i.e. the path selected when the send was requested, even
\* if another device is selected while it awaits.
C17_DispatchKeepsPath ==
    [][\A d \in Slots :
          (disp[d].pc = "start_listening" /\ disp'[d].pc = "send_hid_command")
          => disp'[d].path = disp[d].path]_vars

\* C18: a path enters the listener registry only when a start_listening call
\* made for that same path resolves.
C18_MarkedByOwnCall ==
    [][\A p \in activeListeners' \ activeListeners :
          \E d \in Slots :
              /\ disp[d].pc = "start_listening"
              /\ disp[d].path = p
              /\ disp'[d].pc = "send_hid_command"]_vars

\* C19: the failure of a send removes from the listener registry at most the
\* path that send's rejected call was made for.
C19_FailureUnmarksOwnPath ==
    [][\A d \in Slots :
          (/\ disp[d].pc # "idle"
           /\ event'.name \in {"start_listening:reject", "send_hid_command:reject"}
           /\ disp'[d] # disp[d])
          => activeListeners \ activeListeners' \subseteq {disp[d].path}]_vars

\* C20: once no scan is pending, the catalog is the enumeration returned to
\* the most recently requested of the scans that succeeded, whatever the order
\* in which the answers of overlapping scans arrived.
C20_LastRequestedScanWins ==
    scanPending = 0 => scannedDevices = latestResult

====
